---------------------------- MODULE Spec2Model ----------------------------
(*************************************************************************)
(* Model of ai-agents/main.py: the Smart Transit AI Agents service.      *)
(*                                                                       *)
(* Python strings that the code inspects character by character (the    *)
(* cost and duration of a RouteOption, the timestamp) are sequences of   *)
(* one-character strings; strings the code only passes around or        *)
(* compares for equality are TLA+ strings.  A Python dict is a function  *)
(* whose domain is the set of its keys; None is the value None below.    *)
(*************************************************************************)
EXTENDS Integers, Sequences, FiniteSets, TLC

VARIABLES
    pc,                \* "idle", or "in_get": the event loop is inside requests.get
    request,           \* the request being served (NoRequest when none)
    backend,           \* what the backend does with the outstanding health GET
    transport_data,    \* plan_journey's local transport_data
    optimized_routes,  \* plan_journey's local optimized_routes
    personalized,      \* plan_journey's local personalized
    response,          \* the HTTP response to the request (NoResponse while none)
    now,               \* the wall clock, seconds after midnight
    user_preferences,  \* personalization_agent.user_preferences
    calls,             \* the learn_preference calls made so far, oldest first
    suggestion         \* the last direct get_personalized_suggestions call and its result

vars == <<pc, request, backend, transport_data, optimized_routes, personalized,
          response, now,
          user_preferences, calls, suggestion>>

-----------------------------------------------------------------------------
(* Bounds *)

MaxClock == 2
MaxCalls == 3

-----------------------------------------------------------------------------
(* Python values *)

None == [type |-> "NoneType"]

Unset == [type |-> "unset"]

\* a str where the code may also hold None
Str(s) == [type |-> "str", value |-> s]

EmptyDict == [k \in {} |-> None]

\* d[k] = v
dict_set(d, k, v) == [j \in (DOMAIN d) \cup {k} |-> IF j = k THEN v ELSE d[j]]

\* d.get(k)
dict_get(d, k) == IF k \in DOMAIN d THEN d[k] ELSE None

-----------------------------------------------------------------------------
(* Strings as character sequences *)

Digits == <<"0", "1", "2", "3", "4", "5", "6", "7", "8", "9">>

IsDigit(c) == \E i \in 1..10 : Digits[i] = c

DigitVal(c) == (CHOOSE i \in 1..10 : Digits[i] = c) - 1

\* code point of the characters that occur in the literals
ord(c) ==
    CASE c = " " -> 32
      [] c = "." -> 46
      [] IsDigit(c) -> 48 + DigitVal(c)
      [] c = "R" -> 82
      [] c = "h" -> 104
      [] c = "m" -> 109
      [] c = "s" -> 115

StartsWith(s, p) == Len(s) >= Len(p) /\ SubSeq(s, 1, Len(p)) = p

\* str.replace(old, new): every non-overlapping occurrence, left to right
RECURSIVE str_replace(_, _, _)
str_replace(s, old, new) ==
    IF s = <<>> THEN <<>>
    ELSE IF StartsWith(s, old)
         THEN new \o str_replace(SubSeq(s, Len(old) + 1, Len(s)), old, new)
         ELSE <<Head(s)>> \o str_replace(Tail(s), old, new)

\* int(s) for a string of decimal digits
RECURSIVE py_int(_)
py_int(s) ==
    IF Len(s) = 0 THEN 0
    ELSE 10 * py_int(SubSeq(s, 1, Len(s) - 1)) + DigitVal(s[Len(s)])

\* a < b for two Python strings: code point by code point, a proper prefix first
str_lt(a, b) ==
    \/ \E i \in 1..Len(a) :
          /\ i <= Len(b)
          /\ \A j \in 1..(i - 1) : a[j] = b[j]
          /\ ord(a[i]) < ord(b[i])
    \/ /\ Len(a) < Len(b)
       /\ \A j \in 1..Len(a) : a[j] = b[j]

\* sorted(seq, key=...): stable and ascending; lt is the set of the pairs
\* <<x, y>> of elements with key(x) < key(y)
sorted(seq, lt) ==
    LET insert(t, x) ==
            LET k == Cardinality({i \in 1..Len(t) : <<x, t[i]>> \notin lt})
            IN  SubSeq(t, 1, k) \o <<x>> \o SubSeq(t, k + 1, Len(t))
        f[i \in 0..Len(seq)] == IF i = 0 THEN <<>> ELSE insert(f[i - 1], seq[i])
    IN  f[Len(seq)]

\* two decimal digits of n
TwoDigits(n) == <<Digits[((n \div 10) % 10) + 1], Digits[(n % 10) + 1]>>

\* the time part of datetime.isoformat() for t seconds after midnight
isoformat(t) ==
    TwoDigits(t \div 3600) \o <<":">> \o TwoDigits((t \div 60) % 60)
        \o <<":">> \o TwoDigits(t % 60)

-----------------------------------------------------------------------------
(* Request model *)

Origins == {"Colombo", "Kandy"}
Destinations == {"Galle"}
Languages == {"en", "si", "ta", "fr"}
ModePreferences == {"cheapest", "fastest", "scenic"}

RouteRequest ==
    [origin : Origins, destination : Destinations, language : Languages,
     mode_preference : ModePreferences, accessibility_needs : BOOLEAN]

NoRequest == [method |-> "none", path |-> "none"]

NoResponse == [type |-> "no_response"]

-----------------------------------------------------------------------------
(* DataAggregationAgent *)

\* bodies a backend sends with a 200: JSON objects, a JSON array, not JSON
HealthBodies ==
    { [json |-> "object", value |-> [status |-> Str("OK")]],
      [json |-> "object", value |-> [status |-> Str("degraded")]],
      [json |-> "object", value |-> [message |-> Str("alive")]],
      [json |-> "array"],
      [json |-> "malformed"] }

\* what the backend does with one GET /api/health
BackendBehaviours ==
    { [kind |-> "refused"], [kind |-> "connect_timeout"], [kind |-> "never_answers"] }
    \cup { [kind |-> "answers", status_code |-> 503, body |-> [json |-> "malformed"]] }
    \cup { [kind |-> "answers", status_code |-> 200, body |-> b] : b \in HealthBodies }

NoBackend == [kind |-> "no_call"]

\* the timeout argument of requests.get: the call passes none
timeout == None

\* requests.get returns or raises; it blocks for ever on a backend that never
\* answers unless a timeout is given
requests_get_returns(b) ==
    \/ b.kind \in {"refused", "connect_timeout", "answers"}
    \/ b.kind = "never_answers" /\ timeout # None

requests_get(b) ==
    CASE b.kind = "refused" -> [raised |-> "ConnectionError"]
      [] b.kind = "connect_timeout" -> [raised |-> "ConnectTimeout"]
      [] b.kind = "never_answers" -> [raised |-> "ReadTimeout"]
      [] b.kind = "answers" ->
            [raised |-> "no", status_code |-> b.status_code, body |-> b.body]

\* response.json()
response_json(r) ==
    CASE r.body.json = "object" -> [raised |-> "no", value |-> [type |-> "dict", d |-> r.body.value]]
      [] r.body.json = "array" -> [raised |-> "no", value |-> [type |-> "list"]]
      [] r.body.json = "malformed" -> [raised |-> "JSONDecodeError"]

Fallback == [type |-> "dict", d |-> [status |-> Str("backend_offline"), using_cache |-> TRUE]]

\* variant: the except clause swallows the error and returns nothing
get_transport_data_no_fallback(b) ==
    LET r == requests_get(b)
    IN  IF r.raised # "no" THEN None
        ELSE IF r.status_code = 200
             THEN LET j == response_json(r)
                  IN  IF j.raised # "no" THEN None ELSE j.value
             ELSE None

get_transport_data(b) ==
    LET r == requests_get(b)
    IN  IF r.raised # "no" THEN Fallback
        ELSE IF r.status_code = 200
             THEN LET j == response_json(r)
                  IN  IF j.raised # "no" THEN Fallback ELSE j.value
             ELSE None

-----------------------------------------------------------------------------
(* RouteOptimizationAgent *)

TrainBus ==
    [mode |-> "Train + Bus",
     duration |-> <<"2", "h", " ", "1", "5", "m">>,
     cost |-> <<"R", "s", ".", " ", "1", "8", "0">>,
     steps |-> <<"Walk to Fort Station (3min)", "Train to Galle (1h 50m)",
                 "Walk to destination (5min)">>,
     accessibility_score |-> 8]

ExpressBus ==
    [mode |-> "Express Bus",
     duration |-> <<"2", "h", " ", "4", "5", "m">>,
     cost |-> <<"R", "s", ".", " ", "2", "5", "0">>,
     steps |-> <<"Walk to bus stop (2min)", "Express bus to Galle (2h 35m)",
                 "Walk to destination (3min)">>,
     accessibility_score |-> 6]

base_routes == <<TrainBus, ExpressBus>>

\* lambda x: int(x.cost.replace("Rs. ", ""))
cost_key(x) == py_int(str_replace(x.cost, <<"R", "s", ".", " ">>, <<>>))

\* lambda x: x.duration
duration_key(x) == x.duration

RouteOptions == {base_routes[i] : i \in 1..Len(base_routes)}

cost_lt == {p \in RouteOptions \X RouteOptions : cost_key(p[1]) < cost_key(p[2])}

duration_lt ==
    {p \in RouteOptions \X RouteOptions : str_lt(duration_key(p[1]), duration_key(p[2]))}

cost_gt == {p \in RouteOptions \X RouteOptions : cost_key(p[1]) > cost_key(p[2])}

duration_gt ==
    {p \in RouteOptions \X RouteOptions : str_lt(duration_key(p[2]), duration_key(p[1]))}

\* variant: the cheapest sort is passed reverse=True
optimize_route_cheapest_reversed(req) ==
    IF req.mode_preference = "cheapest" THEN sorted(base_routes, cost_gt)
    ELSE IF req.mode_preference = "fastest" THEN sorted(base_routes, duration_lt)
    ELSE base_routes

\* variant: the fastest sort is passed reverse=True
optimize_route_fastest_reversed(req) ==
    IF req.mode_preference = "cheapest" THEN sorted(base_routes, cost_lt)
    ELSE IF req.mode_preference = "fastest" THEN sorted(base_routes, duration_gt)
    ELSE base_routes

\* variant: without a known preference, accessibility_needs filters the options
optimize_route_accessible_only(req) ==
    IF req.mode_preference = "cheapest" THEN sorted(base_routes, cost_lt)
    ELSE IF req.mode_preference = "fastest" THEN sorted(base_routes, duration_lt)
    ELSE IF req.accessibility_needs
         THEN SelectSeq(base_routes, LAMBDA x : x.accessibility_score >= 7)
         ELSE base_routes

optimize_route(req) ==
    IF req.mode_preference = "cheapest" THEN sorted(base_routes, cost_lt)
    ELSE IF req.mode_preference = "fastest" THEN sorted(base_routes, duration_lt)
    ELSE base_routes

-----------------------------------------------------------------------------
(* PersonalizationAgent *)

UserIds == {"default_user", "alice"}

\* preference dicts handed to learn_preference
Preferences ==
    { [mode |-> "cheapest", accessibility |-> TRUE],
      [mode |-> "fastest", accessibility |-> FALSE],
      [mode |-> "cheapest"] }

DefaultPreference == [mode |-> "fastest", accessibility |-> FALSE]

\* variant: user_preferences.setdefault(user_id, preference)
learn_preference_keep_first(prefs, user_id, preference) ==
    IF user_id \in DOMAIN prefs THEN prefs ELSE dict_set(prefs, user_id, preference)

learn_preference(prefs, user_id, preference) == dict_set(prefs, user_id, preference)

\* variant: user_preferences.setdefault(user_id, default)
get_personalized_suggestions_setdefault(prefs, user_id) ==
    [result |-> IF user_id \in DOMAIN prefs THEN prefs[user_id] ELSE DefaultPreference,
     user_preferences |-> IF user_id \in DOMAIN prefs THEN prefs
                          ELSE dict_set(prefs, user_id, DefaultPreference)]

\* the value returned and the table as the call leaves it
get_personalized_suggestions(prefs, user_id) ==
    [result |-> IF user_id \in DOMAIN prefs THEN prefs[user_id] ELSE DefaultPreference,
     user_preferences |-> prefs]

-----------------------------------------------------------------------------
(* LanguageAgent *)

\* the keys of the translations table
translations == {"si", "ta"}

\* variant: if language != "en"
translate_response_not_en(resp, language) ==
    IF language # "en"
    THEN [translated |-> TRUE, language |-> language, data |-> resp]
    ELSE resp

translate_response(resp, language) ==
    IF language \in translations
    THEN [translated |-> TRUE, language |-> language, data |-> resp]
    ELSE resp

-----------------------------------------------------------------------------
(* The application: module-level agents and the three endpoints *)

AgentNames ==
    [data_agent |-> "Data Aggregation Agent",
     route_agent |-> "Route Optimization Agent",
     personalization_agent |-> "Personalization Agent",
     language_agent |-> "Language & Accessibility Agent"]

Get(path) == [method |-> "GET", path |-> path]

Post(path, body) == [method |-> "POST", path |-> path, body |-> body]

Ok(json) == [status_code |-> 200, json |-> json]

\* an exception that leaves a handler
InternalServerError(exc) ==
    [status_code |-> 500, text |-> "Internal Server Error", exception |-> exc]

root_response ==
    Ok([service |-> "Smart Transit AI Agents",
        agents |-> 7,
        status |-> "active",
        capabilities |-> <<"route_optimization", "personalization",
                           "multilingual", "real_time">>])

\* variant: the agent count of the banner
agents_status_response_seven ==
    Ok([agents |-> << [name |-> AgentNames.data_agent, status |-> "active"],
                      [name |-> AgentNames.route_agent, status |-> "active"],
                      [name |-> AgentNames.personalization_agent, status |-> "active"],
                      [name |-> AgentNames.language_agent, status |-> "active"] >>,
        total_agents |-> 7,
        system_health |-> "optimal"])

agents_status_response ==
    Ok([agents |-> << [name |-> AgentNames.data_agent, status |-> "active"],
                      [name |-> AgentNames.route_agent, status |-> "active"],
                      [name |-> AgentNames.personalization_agent, status |-> "active"],
                      [name |-> AgentNames.language_agent, status |-> "active"] >>,
        total_agents |-> 4,
        system_health |-> "optimal"])

\* the dict handed to translate_response
journey_payload(req, routes) ==
    [origin |-> req.origin,
     destination |-> req.destination,
     routes |-> routes,
     preference_applied |-> req.mode_preference,
     accessibility_considered |-> req.accessibility_needs]

\* the part of plan_journey after the await: transport_data.get raises
\* AttributeError on a value that is not a dict
plan_journey_response(req, td, routes, t) ==
    LET final_response == translate_response(journey_payload(req, routes), req.language)
    IN  IF td.type # "dict" THEN InternalServerError("AttributeError")
        ELSE Ok([success |-> TRUE,
                 processed_by |-> "7 AI agents",
                 timestamp |-> isoformat(t),
                 backend_status |-> dict_get(td.d, "status"),
                 journey_options |-> final_response])

TypeOK ==
    /\ pc \in {"idle", "in_get"}
    /\ now \in 0..MaxClock
    /\ Len(calls) <= MaxCalls
    /\ DOMAIN user_preferences \subseteq UserIds
    /\ backend \in BackendBehaviours \cup {NoBackend}

Init ==
    /\ pc = "idle"
    /\ request = NoRequest
    /\ backend = NoBackend
    /\ transport_data = Unset
    /\ optimized_routes = Unset
    /\ personalized = Unset
    /\ response = NoResponse
    /\ now = 0
    /\ user_preferences = EmptyDict
    /\ calls = <<>>
    /\ suggestion = Unset

\* GET /
Root ==
    /\ pc = "idle"
    /\ request' = Get("/")
    /\ response' = root_response
    /\ backend' = NoBackend
    /\ transport_data' = Unset
    /\ optimized_routes' = Unset
    /\ personalized' = Unset
    /\ UNCHANGED <<pc, now, user_preferences, calls, suggestion>>

\* GET /api/agents/status
AgentsStatus ==
    /\ pc = "idle"
    /\ request' = Get("/api/agents/status")
    /\ response' = agents_status_response
    /\ backend' = NoBackend
    /\ transport_data' = Unset
    /\ optimized_routes' = Unset
    /\ personalized' = Unset
    /\ UNCHANGED <<pc, now, user_preferences, calls, suggestion>>

\* POST /api/plan-journey, up to the call of requests.get, which does not
\* yield to the event loop: no other request is served until it returns
PlanJourneyCall(req, b) ==
    /\ pc = "idle"
    /\ pc' = "in_get"
    /\ request' = Post("/api/plan-journey", req)
    /\ backend' = b
    /\ transport_data' = Unset
    /\ optimized_routes' = Unset
    /\ personalized' = Unset
    /\ response' = NoResponse
    /\ UNCHANGED <<now, user_preferences, calls, suggestion>>

\* requests.get returns or raises, and plan_journey runs to its end
PlanJourneyReturn ==
    /\ pc = "in_get"
    /\ requests_get_returns(backend)
    /\ pc' = "idle"
    /\ transport_data' = get_transport_data(backend)
    /\ optimized_routes' = optimize_route(request.body)
    /\ LET r == get_personalized_suggestions(user_preferences, "default_user")
       IN  /\ personalized' = r.result
           /\ user_preferences' = r.user_preferences
    /\ response' = plan_journey_response(request.body, transport_data',
                                         optimized_routes', now)
    /\ UNCHANGED <<request, backend, now, calls, suggestion>>

\* time passes
Tick ==
    /\ now < MaxClock
    /\ now' = now + 1
    /\ UNCHANGED <<pc, request, backend, transport_data, optimized_routes,
                   personalized, response,
                   user_preferences, calls, suggestion>>

\* personalization_agent.learn_preference(user_id, preference), called directly
LearnPreference(user_id, preference) ==
    /\ pc = "idle"
    /\ Len(calls) < MaxCalls
    /\ user_preferences' = learn_preference(user_preferences, user_id, preference)
    /\ calls' = Append(calls, [user_id |-> user_id, preference |-> preference])
    /\ UNCHANGED <<pc, request, backend, transport_data, optimized_routes,
                   personalized, response,
                   now, suggestion>>

\* personalization_agent.get_personalized_suggestions(user_id), called directly
GetPersonalizedSuggestions(user_id) ==
    /\ pc = "idle"
    /\ LET r == get_personalized_suggestions(user_preferences, user_id)
       IN  /\ suggestion' = [user_id |-> user_id, result |-> r.result,
                             n_calls |-> Len(calls)]
           /\ user_preferences' = r.user_preferences
    /\ UNCHANGED <<pc, request, backend, transport_data, optimized_routes,
                   personalized, response, now, calls>>

\* the service as its HTTP clients drive it
Next ==
    \/ Root
    \/ AgentsStatus
    \/ \E req \in RouteRequest, b \in BackendBehaviours : PlanJourneyCall(req, b)
    \/ PlanJourneyReturn
    \/ Tick

Spec == Init /\ [][Next]_vars

\* the event loop resumes the handler as soon as requests.get is over
FairSpec == Spec /\ WF_vars(PlanJourneyReturn)

\* the personalization agent as code that imports the module drives it
NextAgent ==
    \/ \E u \in UserIds, p \in Preferences : LearnPreference(u, p)
    \/ \E u \in UserIds : GetPersonalizedSuggestions(u)

AgentSpec == Init /\ [][NextAgent]_vars

-----------------------------------------------------------------------------
(* Properties *)

PlanJourneyDone ==
    /\ request.path = "/api/plan-journey"
    /\ response # NoResponse

Succeeded == response.status_code = 200 /\ response.json.success = TRUE

\* the four failures of the health check: connection error, timeout, a status
\* other than 200, a 200 whose body is not JSON
HealthCheckFails(b) ==
    \/ b.kind \in {"refused", "connect_timeout"}
    \/ b.kind = "answers" /\ b.status_code # 200
    \/ b.kind = "answers" /\ b.status_code = 200 /\ b.body.json = "malformed"

\* C1: whenever the health check of a plan_journey call fails in one of the
\* four ways, transport_data is the fallback object and the call returns its
\* normal success response.
C1_HealthFailureNeverPropagates ==
    (PlanJourneyDone /\ HealthCheckFails(backend))
        => (transport_data = Fallback /\ Succeeded)

\* C2: when requests.get raises a connection failure, plan_journey answers
\* 200 with success = true and backend_status = "backend_offline", for every
\* request.
C2_UnreachableBackendStillSucceeds ==
    (PlanJourneyDone /\ backend.kind \in {"refused", "connect_timeout"})
        => /\ Succeeded
           /\ response.json.backend_status = Str("backend_offline")

C2_Witness ==
    /\ PlanJourneyDone
    /\ backend.kind = "refused"
    /\ response.status_code = 200
    /\ request.body.language = "ta"

\* C3: every call of plan_journey eventually produces a response, whatever
\* the backend does.
C3_EveryCallResponds == (pc = "in_get") ~> (response # NoResponse)

\* the cost of an option: what follows the four characters of "Rs. "
CostOf(x) == py_int(SubSeq(x.cost, 5, Len(x.cost)))

IsPermutationOfOptions(rs) ==
    /\ Len(rs) = 2
    /\ {rs[1], rs[2]} = {TrainBus, ExpressBus}

\* C4: with mode_preference = "cheapest" the routes are a permutation of the
\* two options in strictly ascending order of cost: Train + Bus (180), then
\* Express Bus (250).
C4_CheapestAscendingCost ==
    (PlanJourneyDone /\ request.body.mode_preference = "cheapest")
        => /\ IsPermutationOfOptions(optimized_routes)
           /\ CostOf(optimized_routes[1]) < CostOf(optimized_routes[2])
           /\ optimized_routes[1].mode = "Train + Bus"
           /\ CostOf(optimized_routes[1]) = 180
           /\ optimized_routes[2].mode = "Express Bus"
           /\ CostOf(optimized_routes[2]) = 250

C4_Witness ==
    /\ PlanJourneyDone
    /\ request.body.mode_preference = "cheapest"
    /\ Len(optimized_routes) = 2

\* C5: with mode_preference = "fastest" the routes are in ascending order of
\* the duration compared as a string: Train + Bus ("2h 15m"), then Express
\* Bus ("2h 45m").
C5_FastestLexicographic ==
    (PlanJourneyDone /\ request.body.mode_preference = "fastest")
        => /\ IsPermutationOfOptions(optimized_routes)
           /\ str_lt(optimized_routes[1].duration, optimized_routes[2].duration)
           /\ optimized_routes[1].mode = "Train + Bus"
           /\ optimized_routes[2].mode = "Express Bus"

C5_Witness ==
    /\ PlanJourneyDone
    /\ request.body.mode_preference = "fastest"
    /\ Len(optimized_routes) = 2

\* C6: with any other mode_preference the routes are the two options in
\* declaration order, and the routes of a request do not change with its
\* accessibility_needs.
C6_OtherPreferenceUnsorted ==
    PlanJourneyDone
        => /\ request.body.mode_preference \notin {"cheapest", "fastest"}
                => optimized_routes = <<TrainBus, ExpressBus>>
           /\ \A a \in BOOLEAN :
                optimized_routes =
                    optimize_route([request.body EXCEPT !.accessibility_needs = a])

C6_Witness ==
    /\ PlanJourneyDone
    /\ request.body.mode_preference = "scenic"
    /\ request.body.accessibility_needs = TRUE
    /\ Len(optimized_routes) = 2

\* the record of the last of the first n learn_preference calls for user u
LastWritten(u, n) ==
    LET written == {i \in 1..n : calls[i].user_id = u}
    IN  IF written = {} THEN DefaultPreference
        ELSE calls[CHOOSE i \in written : \A j \in written : j <= i].preference

\* C7: get_personalized_suggestions(u) returns the record most recently
\* written for u by learn_preference, whatever was written for other users,
\* and the default for a user never written.
C7_LastWriteWins ==
    suggestion # Unset
        => suggestion.result = LastWritten(suggestion.user_id, suggestion.n_calls)

\* u was written twice with different records, then another user was written,
\* then u was looked up
C7_Witness ==
    /\ suggestion # Unset
    /\ suggestion.n_calls = 3
    /\ calls[1].user_id = suggestion.user_id
    /\ calls[2].user_id = suggestion.user_id
    /\ calls[1].preference # calls[2].preference
    /\ calls[3].user_id # suggestion.user_id
    /\ suggestion.result = calls[2].preference

\* the payload of a request, with the routes in the order common to all
\* preferences
PayloadOf(req) ==
    [origin |-> req.origin,
     destination |-> req.destination,
     routes |-> <<TrainBus, ExpressBus>>,
     preference_applied |-> req.mode_preference,
     accessibility_considered |-> req.accessibility_needs]

\* C8: journey_options is {translated: true, language, data: P} for the
\* languages "si" and "ta" and P itself for any other language, P being the
\* untranslated payload.
C8_WrappedOnlyForSiTa ==
    (PlanJourneyDone /\ response.status_code = 200)
        => response.json.journey_options =
              IF request.body.language \in {"si", "ta"}
              THEN [translated |-> TRUE,
                    language |-> request.body.language,
                    data |-> PayloadOf(request.body)]
              ELSE PayloadOf(request.body)

C8_Witness ==
    /\ PlanJourneyDone
    /\ response.status_code = 200
    /\ request.body.language = "si"
    /\ response.json.journey_options.translated = TRUE

\* C9: GET /api/agents/status reports four agents, all "active", and
\* total_agents = 4.
C9_FourActiveAgents ==
    request = Get("/api/agents/status")
        => /\ response.status_code = 200
           /\ Len(response.json.agents) = 4
           /\ \A i \in 1..Len(response.json.agents) :
                 response.json.agents[i].status = "active"
           /\ response.json.total_agents = 4

C9_Witness ==
    /\ request = Get("/api/agents/status")
    /\ response.status_code = 200
    /\ now > 0

\* C10: the endpoints leave the personalization table empty, and the lookup
\* of plan_journey yields the default.
C10_EndpointsNeverWriteTable ==
    /\ user_preferences = EmptyDict
    /\ PlanJourneyDone => personalized = DefaultPreference

C10_Witness ==
    /\ PlanJourneyDone
    /\ personalized = DefaultPreference
    /\ response.status_code = 200

=============================================================================
